---- MODULE Spec2Model ----
(***************************************************************************)
(* Model of inventory_system.py: the module-level mapping stock_data, the  *)
(* operations add_item, remove_item, get_qty, check_low_items, save_data,  *)
(* load_data, print_data and the driver main.                              *)
(*                                                                         *)
(* Python values are tagged records [t, s, n]: t is the Python type name,  *)
(* s the text of a str, n the number of an int or bool; a float x is       *)
(* stored as n = 2*x (halves).  A dict is a record [keys, val]: keys is    *)
(* the iteration order (insertion order of the present entries), val the   *)
(* mapping itself.                                                         *)
(***************************************************************************)
EXTENDS Integers, Sequences, FiniteSets, TLC

VARIABLES stock, fs, last, hist, pc, data

vars == <<stock, fs, last, hist, pc, data>>

(* ---------------------------- bounds ----------------------------------- *)

\* largest quantity an entry may hold in the explored states (the least is -1)
MaxStock == 2

\* largest qty argument passed to add_item / remove_item
MaxQty == 2

\* default value of the threshold parameter of check_low_items
DefaultThreshold == 5

(* ------------------------- Python values ------------------------------- *)

PyStr(x) == [t |-> "str", s |-> x, n |-> 0]

PyInt(k) == [t |-> "int", s |-> "", n |-> k]

PyBool(b) == [t |-> "bool", s |-> "", n |-> IF b THEN 1 ELSE 0]

PyFloat(halves) == [t |-> "float", s |-> "", n |-> halves]

PyNone == [t |-> "NoneType", s |-> "", n |-> 0]

PyList == [t |-> "list", s |-> "", n |-> 0]

\* isinstance(v, str)
IsStr(v) == v.t = "str"

\* isinstance(v, int): bool is a subclass of int
IsInt(v) == v.t \in {"int", "bool"}

\* the number an int (or bool) stands for in arithmetic and comparisons
IntOf(v) == v.n

(* ----------------------------- dict ------------------------------------ *)

EmptyDict == [keys |-> <<>>, val |-> [k \in {} |-> 0]]

Has(d, k) == k \in DOMAIN d.val

\* d.get(k, default)
DictGet(d, k, default) == IF Has(d, k) THEN d.val[k] ELSE default

\* d[k] = v : a new key goes to the end, an existing key keeps its place
DictSet(d, k, v) ==
  [keys |-> IF Has(d, k) THEN d.keys ELSE Append(d.keys, k),
   val  |-> [x \in (DOMAIN d.val) \cup {k} |-> IF x = k THEN v ELSE d.val[x]]]

\* del d[k]
DictDel(d, k) ==
  [keys |-> SelectSeq(d.keys, LAMBDA x : x # k),
   val  |-> [x \in (DOMAIN d.val) \ {k} |-> d.val[x]]]

\* d.items() as a sequence of <<key, value>> in iteration order
DictItems(d) == [i \in 1..Len(d.keys) |-> <<d.keys[i], d.val[d.keys[i]]>>]

(* ------------------------------ logs ----------------------------------- *)

\* logs=None
NoLogs == [given |-> FALSE, list |-> <<>>]

\* logs=<a caller's list>
Logs(l) == [given |-> TRUE, list |-> l]

\* "{qty}" in an f-string, i.e. str(qty): a bool prints as the word True or
\* False, an int as its digits (word "" and the number n)
FormatQty(qty) ==
  IF qty.t = "bool"
    THEN [word |-> IF qty.n = 1 THEN "True" ELSE "False", n |-> 0]
    ELSE [word |-> "", n |-> qty.n]

\* f"{datetime.now()}: Added {qty} of {item}" (the timestamp is left out)
LogEntry(item, qty) == [text |-> "Added", qty |-> FormatQty(qty), item |-> item.s]

(* --------------------------- operations -------------------------------- *)

\* faulty variant of add_item: stores qty instead of adding it
add_item_overwrite(d, item, qty, logs) ==
  IF ~IsStr(item) THEN [stock |-> d, logs |-> logs, exc |-> "", level |-> "ERROR"]
  ELSE IF ~IsInt(qty) THEN [stock |-> d, logs |-> logs, exc |-> "", level |-> "ERROR"]
  ELSE [stock |-> DictSet(d, item.s, IntOf(qty)),
        logs  |-> IF logs.given
                    THEN [logs EXCEPT !.list = Append(@, LogEntry(item, qty))]
                    ELSE logs,
        exc   |-> "", level |-> "INFO"]

\* faulty variant of add_item: the isinstance check of qty is missing
add_item_unchecked(d, item, qty, logs) ==
  IF ~IsStr(item) THEN [stock |-> d, logs |-> logs, exc |-> "", level |-> "ERROR"]
  ELSE [stock |-> DictSet(d, item.s, DictGet(d, item.s, 0) + IntOf(qty)),
        logs  |-> IF logs.given
                    THEN [logs EXCEPT !.list = Append(@, LogEntry(item, qty))]
                    ELSE logs,
        exc   |-> "", level |-> "INFO"]

\* add_item(item, qty, logs) on the mapping d; logs is the caller's list as
\* the caller sees it afterwards (with logs=None the entry goes to a local
\* list the caller never sees)
add_item(d, item, qty, logs) ==
  IF ~IsStr(item) THEN [stock |-> d, logs |-> logs, exc |-> "", level |-> "ERROR"]
  ELSE IF ~IsInt(qty) THEN [stock |-> d, logs |-> logs, exc |-> "", level |-> "ERROR"]
  ELSE [stock |-> DictSet(d, item.s, DictGet(d, item.s, 0) + IntOf(qty)),
        logs  |-> IF logs.given
                    THEN [logs EXCEPT !.list = Append(@, LogEntry(item, qty))]
                    ELSE logs,
        exc   |-> "", level |-> "INFO"]

\* faulty variant of remove_item: an entry that reaches 0 is kept
remove_item_strict(d, item, qty) ==
  IF ~IsStr(item) THEN [stock |-> d, exc |-> "", level |-> "ERROR"]
  ELSE IF ~IsInt(qty) THEN [stock |-> d, exc |-> "", level |-> "ERROR"]
  ELSE IF ~Has(d, item.s) THEN [stock |-> d, exc |-> "", level |-> "WARNING"]
  ELSE LET dec == DictSet(d, item.s, d.val[item.s] - IntOf(qty))
       IN  IF dec.val[item.s] < 0
             THEN [stock |-> DictDel(dec, item.s), exc |-> "", level |-> "INFO"]
             ELSE [stock |-> dec, exc |-> "", level |-> "INFO"]

\* faulty variant of remove_item: an absent item counts as 0 and is written
remove_item_default(d, item, qty) ==
  IF ~IsStr(item) THEN [stock |-> d, exc |-> "", level |-> "ERROR"]
  ELSE IF ~IsInt(qty) THEN [stock |-> d, exc |-> "", level |-> "ERROR"]
  ELSE LET dec == DictSet(d, item.s, DictGet(d, item.s, 0) - IntOf(qty))
       IN  IF dec.val[item.s] <= 0
             THEN [stock |-> DictDel(dec, item.s), exc |-> "", level |-> "INFO"]
             ELSE [stock |-> dec, exc |-> "", level |-> "INFO"]

\* remove_item(item, qty) on the mapping d
remove_item(d, item, qty) ==
  IF ~IsStr(item) THEN [stock |-> d, exc |-> "", level |-> "ERROR"]
  ELSE IF ~IsInt(qty) THEN [stock |-> d, exc |-> "", level |-> "ERROR"]
  ELSE IF ~Has(d, item.s) THEN [stock |-> d, exc |-> "", level |-> "WARNING"]
  ELSE LET dec == DictSet(d, item.s, d.val[item.s] - IntOf(qty))
       IN  IF dec.val[item.s] <= 0
             THEN [stock |-> DictDel(dec, item.s), exc |-> "", level |-> "INFO"]
             ELSE [stock |-> dec, exc |-> "", level |-> "INFO"]

\* get_qty(item)
get_qty(d, item) ==
  IF ~IsStr(item) THEN [ret |-> 0, level |-> "ERROR"]
  ELSE [ret |-> DictGet(d, item.s, 0), level |-> ""]

\* faulty variant of check_low_items: qty <= threshold
check_low_items_le(d, threshold) ==
  IF ~IsInt(threshold) THEN [ret |-> <<>>, level |-> "ERROR"]
  ELSE [ret |-> SelectSeq(d.keys, LAMBDA k : d.val[k] <= IntOf(threshold)),
        level |-> ""]

\* check_low_items(threshold)
check_low_items(d, threshold) ==
  IF ~IsInt(threshold) THEN [ret |-> <<>>, level |-> "ERROR"]
  ELSE [ret |-> SelectSeq(d.keys, LAMBDA k : d.val[k] < IntOf(threshold)),
        level |-> ""]

\* print_data(): the report lines after the "Items Report" heading
print_data(d) == [ret |-> DictItems(d), level |-> "INFO"]

(* ------------------------------ files ---------------------------------- *)

\* the text of a file as json.load sees it: kind "garbage" is text that is
\* not JSON, "array" a JSON array, "object" a JSON object whose members are
\* pairs (k a string, v the Python value json.load makes of the member)
NoDoc == [kind |-> "none", pairs |-> <<>>]

Garbage == [kind |-> "garbage", pairs |-> <<>>]

JsonArray == [kind |-> "array", pairs |-> <<>>]

JsonObject(pairs) == [kind |-> "object", pairs |-> pairs]

Member(k, v) == [k |-> k, v |-> v]

\* a file of the file system: perm "missing" (no such file), "rw", "ro"
\* (open for writing fails), "locked" (open fails for reading and writing)
File(perm, doc) == [perm |-> perm, doc |-> doc]

Missing == File("missing", NoDoc)

\* faulty variant of JsonDump: the last entry is not written
JsonDumpTruncated(d) ==
  JsonObject([i \in 1..(Len(d.keys) - 1) |-> Member(d.keys[i], PyInt(d.val[d.keys[i]]))])

\* json.dump(stock_data, file, indent=2): one member per entry, in order
JsonDump(d) ==
  JsonObject([i \in 1..Len(d.keys) |-> Member(d.keys[i], PyInt(d.val[d.keys[i]]))])

RECURSIVE ParseObject(_)
\* the dict json.load builds from the members: a repeated key keeps its
\* first place and takes its last value
ParseObject(pairs) ==
  IF pairs = <<>> THEN EmptyDict
  ELSE LET n == Len(pairs)
       IN  DictSet(ParseObject(SubSeq(pairs, 1, n - 1)), pairs[n].k, pairs[n].v)

\* the strings int() accepts among those the files contain
IntLiterals == {"0", "3", " 2 ", "-1"}

\* int(s) for s in IntLiterals
ParseInt(s) ==
  CASE s = "0" -> 0
    [] s = "3" -> 3
    [] s = " 2 " -> 2
    [] s = "-1" -> -1

\* int(x) for the float x = halves / 2: truncation towards zero
Truncate(halves) == IF halves >= 0 THEN halves \div 2 ELSE -((-halves) \div 2)

\* int(v): the integer, or the exception int() raises
IntConv(v) ==
  CASE v.t \in {"int", "bool"} -> [exc |-> "", n |-> v.n]
    [] v.t = "float" -> [exc |-> "", n |-> Truncate(v.n)]
    [] v.t = "str" -> IF v.s \in IntLiterals
                        THEN [exc |-> "", n |-> ParseInt(v.s)]
                        ELSE [exc |-> "ValueError", n |-> 0]
    [] OTHER -> [exc |-> "TypeError", n |-> 0]

\* {str(k): int(v) for k, v in data.items()}: the first member int() fails
\* on ends the comprehension with its exception
Coerce(parsed) ==
  LET bad == {i \in 1..Len(parsed.keys) : IntConv(parsed.val[parsed.keys[i]]).exc # ""}
  IN  IF bad = {}
        THEN [exc |-> "",
              dict |-> [keys |-> parsed.keys,
                        val  |-> [k \in DOMAIN parsed.val |-> IntConv(parsed.val[k]).n]]]
        ELSE LET first == CHOOSE i \in bad : \A j \in bad : i <= j
             IN  [exc |-> IntConv(parsed.val[parsed.keys[first]]).exc, dict |-> EmptyDict]

\* faulty variant of load_data: a successful load replaces the live mapping
load_data_rebind(d, fsys, f) ==
  LET file == fsys[f]
  IN  CASE file.perm = "missing" ->
             [stock |-> d, ret |-> EmptyDict, exc |-> "", level |-> "INFO"]
        [] file.perm = "locked" ->
             [stock |-> d, ret |-> EmptyDict, exc |-> "PermissionError", level |-> ""]
        [] file.doc.kind = "garbage" ->
             [stock |-> d, ret |-> EmptyDict, exc |-> "", level |-> "ERROR"]
        [] file.doc.kind = "array" ->
             [stock |-> d, ret |-> EmptyDict, exc |-> "", level |-> "WARNING"]
        [] OTHER ->
             LET c == Coerce(ParseObject(file.doc.pairs))
             IN  CASE c.exc = "" ->
                        [stock |-> c.dict, ret |-> c.dict, exc |-> "", level |-> ""]
                   [] c.exc = "ValueError" ->
                        [stock |-> d, ret |-> EmptyDict, exc |-> "", level |-> "ERROR"]
                   [] OTHER ->
                        [stock |-> d, ret |-> EmptyDict, exc |-> c.exc, level |-> ""]

\* load_data(file_name): stock is the live mapping after the call, ret the
\* returned mapping, exc the exception that leaves the function ("" if none)
load_data(d, fsys, f) ==
  LET file == fsys[f]
  IN  CASE file.perm = "missing" ->
             [stock |-> d, ret |-> EmptyDict, exc |-> "", level |-> "INFO"]
        [] file.perm = "locked" ->
             [stock |-> d, ret |-> EmptyDict, exc |-> "PermissionError", level |-> ""]
        [] file.doc.kind = "garbage" ->
             [stock |-> d, ret |-> EmptyDict, exc |-> "", level |-> "ERROR"]
        [] file.doc.kind = "array" ->
             [stock |-> d, ret |-> EmptyDict, exc |-> "", level |-> "WARNING"]
        [] OTHER ->
             LET c == Coerce(ParseObject(file.doc.pairs))
             IN  CASE c.exc = "" ->
                        [stock |-> d, ret |-> c.dict, exc |-> "", level |-> ""]
                   [] c.exc = "ValueError" ->
                        [stock |-> d, ret |-> EmptyDict, exc |-> "", level |-> "ERROR"]
                   [] OTHER ->
                        [stock |-> d, ret |-> EmptyDict, exc |-> c.exc, level |-> ""]

\* save_data(file_name): the file system after the call
save_data(d, fsys, f) ==
  IF fsys[f].perm \in {"missing", "rw"}
    THEN [fs |-> [fsys EXCEPT ![f] = File("rw", JsonDump(d))], exc |-> "", level |-> "INFO"]
    ELSE [fs |-> fsys, exc |-> "", level |-> "ERROR"]

(* --------------------------- state machine ----------------------------- *)

\* item names used as arguments
Items == {"apple", "banana"}

\* item arguments: text, and values that are not text
ItemArgs == {PyStr(i) : i \in Items} \cup {PyInt(1)}

\* qty arguments: integers (bool included), and values that are not integers
QtyArgs == {PyInt(q) : q \in (-1)..MaxQty}
             \cup {PyBool(TRUE), PyFloat(3)}

\* threshold arguments of check_low_items
ThresholdArgs == {PyInt(t) : t \in 0..MaxStock}
                   \cup {PyInt(DefaultThreshold), PyFloat(4)}

\* logs arguments of add_item
LogArgs == {NoLogs, Logs(<<LogEntry(PyStr("apple"), PyInt(1))>>)}

FileNames == {"inventory.json", "locked.json", "garbage.json", "array.json",
              "null.json", "text.json", "coerce.json"}

\* the files present before the program runs; inventory.json does not exist
Fixtures ==
  ("inventory.json" :> Missing)
  @@ ("locked.json" :> File("locked", JsonObject(<<Member("apple", PyInt(1))>>)))
  @@ ("garbage.json" :> File("ro", Garbage))
  @@ ("array.json" :> File("ro", JsonArray))
  @@ ("null.json" :> File("ro", JsonObject(<<Member("apple", PyInt(1)),
                                             Member("banana", PyNone),
                                             Member("pear", PyStr("abc"))>>)))
  @@ ("text.json" :> File("ro", JsonObject(<<Member("apple", PyStr("abc")),
                                             Member("banana", PyList)>>)))
  @@ ("coerce.json" :> File("ro", JsonObject(<<Member("apple", PyFloat(5)),
                                               Member("banana", PyStr(" 2 ")),
                                               Member("pear", PyBool(TRUE)),
                                               Member("apple", PyFloat(-3))>>)))

\* every stored quantity is within the explored range
InRange(d) == \A k \in DOMAIN d.val : d.val[k] \in (-1)..MaxStock

\* the record of a call: its arguments, the mapping before it and what the
\* caller gets back; prevSaved is the file the call right before it saved
Call(op) ==
  [op |-> op, item |-> PyNone, qty |-> PyNone, f |-> "", pre |-> stock,
   logsIn |-> NoLogs, logsOut |-> NoLogs, retInt |-> 0, retList |-> <<>>,
   retDict |-> EmptyDict, lines |-> <<>>, exc |-> "", level |-> "",
   prevSaved |-> IF last.op = "save_data" /\ last.level = "INFO" THEN last.f ELSE ""]

NoCall ==
  [op |-> "none", item |-> PyNone, qty |-> PyNone, f |-> "", pre |-> EmptyDict,
   logsIn |-> NoLogs, logsOut |-> NoLogs, retInt |-> 0, retList |-> <<>>,
   retDict |-> EmptyDict, lines |-> <<>>, exc |-> "", level |-> "",
   prevSaved |-> ""]

Range(q) == {q[i] : i \in DOMAIN q}

\* what an observer of the calls knows (kept under Spec): firstSeen lists the keys in the order
\* of their first insertion ever; entered holds <<a, b>> when a and b are
\* present and the present entry of a was created before that of b; for an
\* item with onlyAdds, addSum is the sum of the qty of the add_item calls
\* since the item was last absent
NoHist ==
  [firstSeen |-> <<>>, entered |-> {},
   onlyAdds |-> [i \in Items |-> TRUE], addSum |-> [i \in Items |-> 0]]

Observe(h, pre, post, call) ==
  LET created == (DOMAIN post.val) \ (DOMAIN pre.val)
      kept    == (DOMAIN post.val) \cap (DOMAIN pre.val)
      unseen  == created \ Range(h.firstSeen)
      valid   == IsStr(call.item) /\ IsInt(call.qty)
  IN  [firstSeen |-> IF unseen = {} THEN h.firstSeen
                     ELSE Append(h.firstSeen, CHOOSE k \in unseen : TRUE),
       entered   |-> {p \in h.entered : p[1] \in kept /\ p[2] \in kept}
                       \cup (kept \X created),
       onlyAdds  |-> [i \in Items |->
                       IF call.op = "remove_item" /\ valid /\ call.item.s = i
                         THEN ~Has(post, i)
                         ELSE h.onlyAdds[i]],
       addSum    |-> [i \in Items |->
                       IF valid /\ call.item.s = i
                         THEN IF call.op = "add_item" /\ h.onlyAdds[i]
                                THEN h.addSum[i] + IntOf(call.qty)
                                ELSE 0
                         ELSE h.addSum[i]]]

Init ==
  /\ stock = EmptyDict
  /\ fs = Fixtures
  /\ last = NoCall
  /\ hist = NoHist
  /\ pc = "lib"
  /\ data = EmptyDict

AddItemStep(item, qty, logs) ==
  LET r == add_item(stock, item, qty, logs)
  IN  /\ stock' = r.stock
      /\ last' = [Call("add_item") EXCEPT !.item = item, !.qty = qty,
                    !.logsIn = logs, !.logsOut = r.logs,
                    !.exc = r.exc, !.level = r.level]

RemoveItemStep(item, qty) ==
  LET r == remove_item(stock, item, qty)
  IN  /\ stock' = r.stock
      /\ last' = [Call("remove_item") EXCEPT !.item = item, !.qty = qty,
                    !.exc = r.exc, !.level = r.level]

GetQtyStep(item) ==
  LET r == get_qty(stock, item)
  IN  /\ stock' = stock
      /\ last' = [Call("get_qty") EXCEPT !.item = item, !.retInt = r.ret,
                    !.level = r.level]

CheckLowItemsStep(threshold) ==
  LET r == check_low_items(stock, threshold)
  IN  /\ stock' = stock
      /\ last' = [Call("check_low_items") EXCEPT !.qty = threshold,
                    !.retList = r.ret, !.level = r.level]

PrintDataStep ==
  LET r == print_data(stock)
  IN  /\ stock' = stock
      /\ last' = [Call("print_data") EXCEPT !.lines = r.ret, !.level = r.level]

SaveDataStep(f) ==
  LET r == save_data(stock, fs, f)
  IN  /\ stock' = stock
      /\ fs' = r.fs
      /\ last' = [Call("save_data") EXCEPT !.f = f, !.exc = r.exc, !.level = r.level]

LoadDataStep(f) ==
  LET r == load_data(stock, fs, f)
  IN  /\ stock' = r.stock
      /\ last' = [Call("load_data") EXCEPT !.f = f, !.retDict = r.ret,
                    !.exc = r.exc, !.level = r.level]

(* the in-memory operations, called in any order with any arguments *)

AddItemWith(items, qtys, logArgs) ==
  \E item \in items, qty \in qtys, logs \in logArgs :
    /\ AddItemStep(item, qty, logs)
    /\ InRange(stock')

RemoveItemWith(items, qtys) ==
  \E item \in items, qty \in qtys :
    /\ RemoveItemStep(item, qty)
    /\ InRange(stock')

AddItem ==
  /\ AddItemWith(ItemArgs, QtyArgs, LogArgs)
  /\ hist' = Observe(hist, stock, stock', last')
  /\ UNCHANGED <<fs, pc, data>>

RemoveItem ==
  /\ RemoveItemWith(ItemArgs, QtyArgs)
  /\ hist' = Observe(hist, stock, stock', last')
  /\ UNCHANGED <<fs, pc, data>>

GetQty ==
  \E item \in ItemArgs :
    /\ GetQtyStep(item)
    /\ hist' = Observe(hist, stock, stock', last')
    /\ UNCHANGED <<fs, pc, data>>

CheckLowItems ==
  \E threshold \in ThresholdArgs :
    /\ CheckLowItemsStep(threshold)
    /\ hist' = Observe(hist, stock, stock', last')
    /\ UNCHANGED <<fs, pc, data>>

PrintData ==
  /\ PrintDataStep
  /\ hist' = Observe(hist, stock, stock', last')
  /\ UNCHANGED <<fs, pc, data>>

Next == AddItem \/ RemoveItem \/ GetQty \/ CheckLowItems \/ PrintData

Spec == Init /\ [][Next]_vars

(* persistence: add_item / remove_item with well-typed arguments, save_data
   and load_data on any of the files *)

TextItems == {PyStr(i) : i \in Items}

IntQtys == {PyInt(q) : q \in (-1)..MaxQty}

AddTextItem ==
  /\ AddItemWith(TextItems, IntQtys, {NoLogs})
  /\ UNCHANGED <<fs, hist, pc, data>>

RemoveTextItem ==
  /\ RemoveItemWith(TextItems, IntQtys)
  /\ UNCHANGED <<fs, hist, pc, data>>

SaveData ==
  \E f \in FileNames :
    /\ SaveDataStep(f)
    /\ UNCHANGED <<hist, pc, data>>

LoadData ==
  \E f \in FileNames :
    /\ LoadDataStep(f)
    /\ UNCHANGED <<fs, hist, pc, data>>

NextFile == AddTextItem \/ RemoveTextItem \/ SaveData \/ LoadData

SpecFile == Init /\ [][NextFile]_vars

(* main(): one action per statement; inventory.json may be any file, or
   missing, when main starts *)

RECURSIVE UpdateFrom(_, _, _)
UpdateFrom(d, e, n) ==
  IF n = 0 THEN d
  ELSE DictSet(UpdateFrom(d, e, n - 1), e.keys[n], e.val[e.keys[n]])

\* d.update(e)
DictUpdate(d, e) == UpdateFrom(d, e, Len(e.keys))

InventoryFiles ==
  {Missing} \cup {File(perm, Fixtures[n].doc) :
                    perm \in {"rw", "ro", "locked"},
                    n \in FileNames \ {"inventory.json"}}

InitMain ==
  /\ stock = EmptyDict
  /\ \E file \in InventoryFiles : fs = [Fixtures EXCEPT !["inventory.json"] = file]
  /\ last = NoCall
  /\ hist = NoHist
  /\ pc = "L124"
  /\ data = EmptyDict

Main124 ==
  /\ pc = "L124"
  /\ AddItemStep(PyStr("apple"), PyInt(10), NoLogs)
  /\ pc' = "L125"
  /\ UNCHANGED <<fs, hist, data>>

Main125 ==
  /\ pc = "L125"
  /\ AddItemStep(PyStr("banana"), PyInt(2), NoLogs)
  /\ pc' = "L126"
  /\ UNCHANGED <<fs, hist, data>>

Main126 ==
  /\ pc = "L126"
  /\ AddItemStep(PyStr("pear"), PyInt(0), NoLogs)
  /\ pc' = "L127"
  /\ UNCHANGED <<fs, hist, data>>

Main127 ==
  /\ pc = "L127"
  /\ RemoveItemStep(PyStr("apple"), PyInt(3))
  /\ pc' = "L128"
  /\ UNCHANGED <<fs, hist, data>>

Main128 ==
  /\ pc = "L128"
  /\ RemoveItemStep(PyStr("orange"), PyInt(1))
  /\ pc' = "L129"
  /\ UNCHANGED <<fs, hist, data>>

Main129 ==
  /\ pc = "L129"
  /\ GetQtyStep(PyStr("apple"))
  /\ pc' = "L130"
  /\ UNCHANGED <<fs, hist, data>>

Main130 ==
  /\ pc = "L130"
  /\ CheckLowItemsStep(PyInt(DefaultThreshold))
  /\ pc' = "L131"
  /\ UNCHANGED <<fs, hist, data>>

Main131 ==
  /\ pc = "L131"
  /\ SaveDataStep("inventory.json")
  /\ pc' = "L132"
  /\ UNCHANGED <<hist, data>>

\* data = load_data(): an exception of load_data ends main
Main132 ==
  /\ pc = "L132"
  /\ LoadDataStep("inventory.json")
  /\ data' = last'.retDict
  /\ pc' = IF last'.exc = "" THEN "L134" ELSE "raised"
  /\ UNCHANGED <<fs, hist>>

\* stock_data.clear()
Main134 ==
  /\ pc = "L134"
  /\ stock' = EmptyDict
  /\ pc' = "L135"
  /\ UNCHANGED <<fs, last, hist, data>>

\* stock_data.update(data)
Main135 ==
  /\ pc = "L135"
  /\ stock' = DictUpdate(stock, data)
  /\ pc' = "L136"
  /\ UNCHANGED <<fs, last, hist, data>>

Main136 ==
  /\ pc = "L136"
  /\ PrintDataStep
  /\ pc' = "done"
  /\ UNCHANGED <<fs, hist, data>>

NextMain ==
  \/ Main124 \/ Main125 \/ Main126 \/ Main127 \/ Main128 \/ Main129
  \/ Main130 \/ Main131 \/ Main132 \/ Main134 \/ Main135 \/ Main136

SpecMain == InitMain /\ [][NextMain]_vars

(* ------------------- properties of the in-memory operations ------------ *)

\* C1: every item present in stock_data has a stored quantity strictly
\* greater than 0
C1_StoredQuantitiesPositive == \A k \in DOMAIN stock.val : stock.val[k] > 0

\* C3: for an item that was absent and has since seen only add_item calls,
\* get_qty(item) equals the sum of the qty arguments of those calls
C3_AddsSumUp ==
  \A i \in Items : hist.onlyAdds[i] => get_qty(stock, PyStr(i)).ret = hist.addSum[i]

\* a second (or later) add_item of a non-zero qty to an item that has seen
\* only add_item calls since it was absent
C3_Witness ==
  \E i \in Items :
    /\ last.op = "add_item" /\ last.item = PyStr(i) /\ IsInt(last.qty)
    /\ IntOf(last.qty) # 0
    /\ Has(last.pre, i) /\ last.pre.val[i] # 0
    /\ hist.onlyAdds[i]
    /\ get_qty(stock, PyStr(i)).ret = last.pre.val[i] + IntOf(last.qty)

\* C4: remove_item(item, qty) with qty >= get_qty(item) leaves the item absent
C4_RemoveAtLeastAllDeletes ==
  (/\ last.op = "remove_item" /\ IsStr(last.item) /\ IsInt(last.qty)
   /\ IntOf(last.qty) >= get_qty(last.pre, last.item).ret)
    => ~Has(stock, last.item.s)

\* remove_item of exactly the stored (positive) quantity deleted the entry
C4_Witness ==
  /\ last.op = "remove_item" /\ IsStr(last.item) /\ IsInt(last.qty)
  /\ Has(last.pre, last.item.s)
  /\ last.pre.val[last.item.s] > 0
  /\ IntOf(last.qty) = last.pre.val[last.item.s]
  /\ ~Has(stock, last.item.s)

\* C5 as stated: check_low_items(T) returns exactly the items with quantity
\* < T, ordered by the order in which the keys were first inserted into the
\* mapping, and leaves the mapping unchanged
C5_FirstInsertionOrder ==
  (last.op = "check_low_items" /\ IsInt(last.qty))
    => /\ last.retList = SelectSeq(hist.firstSeen,
                           LAMBDA k : Has(stock, k) /\ stock.val[k] < IntOf(last.qty))
       /\ stock = last.pre

\* C5 amended: check_low_items(T) returns exactly the items with quantity
\* < T, each once, ordered by the creation of their present entries (a key
\* deleted and added again comes after the keys that stayed), and leaves the
\* mapping unchanged
C5_PresentEntryOrder ==
  (last.op = "check_low_items" /\ IsInt(last.qty))
    => /\ Range(last.retList) = {k \in DOMAIN stock.val : stock.val[k] < IntOf(last.qty)}
       /\ Cardinality(Range(last.retList)) = Len(last.retList)
       /\ \A p, q \in 1..Len(last.retList) :
            p < q => <<last.retList[p], last.retList[q]>> \in hist.entered
       /\ stock = last.pre

\* check_low_items listed two items in an order that is not the order of
\* their first insertion
C5_Witness ==
  /\ last.op = "check_low_items" /\ IsInt(last.qty)
  /\ Len(last.retList) = 2
  /\ last.retList[1] = hist.firstSeen[2]
  /\ last.retList[2] = hist.firstSeen[1]

\* C9: add_item and remove_item with an item that is not text or a qty that
\* is not an integer leave stock_data and the caller's logs list as they
\* were and return normally
C9_BadTypesAreNoOps ==
  (/\ last.op \in {"add_item", "remove_item"}
   /\ (~IsStr(last.item) \/ ~IsInt(last.qty)))
    => /\ stock = last.pre
       /\ last.logsOut = last.logsIn
       /\ last.exc = ""

\* add_item of a text item already in stock with a qty that is not an
\* integer, given a logs list
C9_Witness ==
  /\ last.op = "add_item" /\ IsStr(last.item) /\ ~IsInt(last.qty)
  /\ Has(last.pre, last.item.s)
  /\ last.logsIn.given
  /\ last.level = "ERROR"

\* C10: remove_item changes at most the entry of the named item: nothing at
\* all when the item is absent, the entry becomes stored - qty when that is
\* > 0, every other key keeps its value and no key is added
C10_RemoveTouchesOneEntry ==
  last.op = "remove_item"
    => /\ (DOMAIN stock.val) \subseteq (DOMAIN last.pre.val)
       /\ \A k \in DOMAIN last.pre.val :
            (~IsStr(last.item) \/ k # last.item.s)
              => Has(stock, k) /\ stock.val[k] = last.pre.val[k]
       /\ (IsStr(last.item) /\ ~Has(last.pre, last.item.s)) => stock = last.pre
       /\ (/\ IsStr(last.item) /\ IsInt(last.qty) /\ Has(last.pre, last.item.s)
           /\ last.pre.val[last.item.s] - IntOf(last.qty) > 0)
            => /\ Has(stock, last.item.s)
               /\ stock.val[last.item.s] = last.pre.val[last.item.s] - IntOf(last.qty)

\* remove_item decreased an entry to a positive quantity while another item
\* was in stock
C10_Witness ==
  /\ last.op = "remove_item" /\ IsStr(last.item) /\ IsInt(last.qty)
  /\ Has(last.pre, last.item.s) /\ Has(stock, last.item.s)
  /\ IntOf(last.qty) > 0
  /\ stock.val[last.item.s] > 0
  /\ Cardinality(DOMAIN stock.val) = 2

(* ---------------------- properties of persistence ---------------------- *)

\* C6: a successful save_data(f) immediately followed by load_data(f)
\* returns a mapping with the keys stock_data had at the save, each with
\* the identical integer value
C6_SaveLoadRoundTrip ==
  (last.op = "load_data" /\ last.prevSaved = last.f)
    => /\ last.exc = ""
       /\ DOMAIN last.retDict.val = DOMAIN last.pre.val
       /\ \A k \in DOMAIN last.pre.val : last.retDict.val[k] = last.pre.val[k]

\* load_data right after a successful save_data of a mapping with two
\* entries, one of them not positive
C6_Witness ==
  /\ last.op = "load_data" /\ last.prevSaved = last.f
  /\ Cardinality(DOMAIN last.pre.val) = 2
  /\ \E k \in DOMAIN last.pre.val : last.pre.val[k] <= 0
  /\ last.retDict.keys = <<"banana", "apple">>

\* C7: no operation propagates an exception to its caller; load_data
\* returns a mapping for every file condition
C7_NothingRaises == last.exc = ""

\* C8: load_data leaves stock_data unchanged on every path
C8_LoadLeavesStock == last.op = "load_data" => stock = last.pre

\* load_data returned a non-empty mapping that differs from the non-empty
\* stock_data
C8_Witness ==
  /\ last.op = "load_data" /\ last.exc = ""
  /\ last.retDict # EmptyDict
  /\ last.pre # EmptyDict
  /\ last.retDict # last.pre

(* -------------------------- properties of main ------------------------- *)

\* C2: after the five add_item / remove_item calls of main the mapping is
\* exactly {"apple": 7, "banana": 2}, get_qty("apple") returns 7 and
\* check_low_items(5) returns ["banana"]
C2_Scenario ==
  /\ pc = "L129" => /\ DOMAIN stock.val = {"apple", "banana"}
                    /\ stock.val["apple"] = 7
                    /\ stock.val["banana"] = 2
  /\ pc = "L130" => last.retInt = 7
  /\ pc = "L131" => last.retList = <<"banana">>

====
